---- MODULE Spec2Model ----
(***************************************************************************)
(* Allergen matching engine of the Allergy Detection app                   *)
(* (allergy_app_easyocr.py, allergy_app_easyocr_voice.py).                 *)
(*                                                                         *)
(* A Python str is modelled as a sequence of one-character strings, so     *)
(* that strip, lower, replace, split, `in` and sorted are computed the way *)
(* the interpreter computes them.                                          *)
(***************************************************************************)
EXTENDS Integers, Sequences, FiniteSets, TLC

VARIABLES
    ingredients_text,   \* argument of parse_ingredients / check_allergy
    profile,            \* argument of check_allergy (a dict, 'allergies' optional)
    report,             \* value returned by check_allergy
    food_ings,          \* value returned by parse_ingredients
    rejoined,           \* ','.join(sorted(food_ings))
    reparsed,           \* parse_ingredients(rejoined)
    phase,              \* position of the pure-function harness
    user_json,          \* user_profile.json: the list under 'users'
    db_csv,             \* ingredients_db.csv: the rows after the header
    session_state,      \* st.session_state of every browser session
    pc,                 \* where the script run of every session stands
    all_users,          \* local all_users of the Manage Allergies handler
    frame,              \* locals of the check_allergy call in progress
    res,                \* local res of the Scan Label handler
    edits               \* Add/Remove Allergy clicks of every session so far

pure_vars ==
    <<ingredients_text, profile, report, food_ings, rejoined, reparsed, phase>>

app_vars ==
    <<user_json, db_csv, session_state, pc, all_users, frame, res, edits>>

vars == <<pure_vars, app_vars>>

----------------------------------------------------------------------------
(* Bounds of the input enumeration *)

MaxParseLen == 4
MaxTextLen == 3
MaxAllergies == 2
MaxFoods == 1
MaxEdits == 1

----------------------------------------------------------------------------
(* Characters *)

\* The characters of the model in code-point order (Python compares str by
\* code point).
Uppercase ==
    <<"A", "B", "C", "D", "E", "F", "G", "H", "I", "J", "K", "L", "M",
      "N", "O", "P", "Q", "R", "S", "T", "U", "V", "W", "X", "Y", "Z">>

Lowercase ==
    <<"a", "b", "c", "d", "e", "f", "g", "h", "i", "j", "k", "l", "m",
      "n", "o", "p", "q", "r", "s", "t", "u", "v", "w", "x", "y", "z">>

\* U+2102 DOUBLE-STRUCK CAPITAL C, written by its code point: an uppercase
\* letter (category Lu, str.isupper is True) that has no lowercase form, so
\* str.lower returns it unchanged
DoubleStruckC == "U+2102"

CodeOrder ==
    <<" ", ",", "1", "2", ";">> \o Uppercase \o Lowercase \o <<DoubleStruckC>>

ord(c) == CHOOSE i \in 1..Len(CodeOrder) : CodeOrder[i] = c

\* str.isspace for one character
isspace(c) == c = " "

\* str.lower for one character
lower_char(c) ==
    IF \E i \in 1..Len(Uppercase) : Uppercase[i] = c
    THEN Lowercase[CHOOSE i \in 1..Len(Uppercase) : Uppercase[i] = c]
    ELSE c

\* x < y for str: lexicographic by code point, a proper prefix is smaller
RECURSIVE str_lt(_, _)
str_lt(x, y) ==
    IF y = <<>> THEN FALSE
    ELSE IF x = <<>> THEN TRUE
    ELSE IF Head(x) # Head(y) THEN ord(Head(x)) < ord(Head(y))
    ELSE str_lt(Tail(x), Tail(y))

----------------------------------------------------------------------------
(* str methods *)

RECURSIVE lstrip(_)
lstrip(s) == IF s # <<>> /\ isspace(Head(s)) THEN lstrip(Tail(s)) ELSE s

RECURSIVE rstrip(_)
rstrip(s) ==
    IF s # <<>> /\ isspace(s[Len(s)]) THEN rstrip(SubSeq(s, 1, Len(s) - 1)) ELSE s

strip(s) == rstrip(lstrip(s))

lower(s) == [i \in 1..Len(s) |-> lower_char(s[i])]

\* text.replace(old, new) for single characters
replace(s, old, new) == [i \in 1..Len(s) |-> IF s[i] = old THEN new ELSE s[i]]

\* text.split(sep): the list of the segments between separators, empty ones kept
RECURSIVE split(_, _)
split(s, sep) ==
    IF \A i \in 1..Len(s) : s[i] # sep THEN <<s>>
    ELSE LET k == CHOOSE i \in 1..Len(s) :
                      s[i] = sep /\ \A j \in 1..(i - 1) : s[j] # sep
         IN <<SubSeq(s, 1, k - 1)>> \o split(SubSeq(s, k + 1, Len(s)), sep)

\* a in b for str: a occurs in b as a contiguous run (the empty str occurs in
\* every str)
contains(b, a) ==
    \E i \in 0..(Len(b) - Len(a)) : SubSeq(b, i + 1, i + Len(a)) = a

\* sorted(S) of a set of str
RECURSIVE sorted(_)
sorted(S) ==
    IF S = {} THEN <<>>
    ELSE LET m == CHOOSE x \in S : \A y \in S : x = y \/ str_lt(x, y)
         IN <<m>> \o sorted(S \ {m})

\* sep.join(list)
RECURSIVE join(_, _)
join(sep, l) ==
    IF l = <<>> THEN <<>>
    ELSE IF Len(l) = 1 THEN l[1]
    ELSE l[1] \o <<sep>> \o join(sep, Tail(l))

Range(l) == {l[i] : i \in 1..Len(l)}

----------------------------------------------------------------------------
(* The matching core *)

normalize_nolower(s) == strip(s)

normalize(s) == lower(strip(s))

parse_ingredients_keep_blank(text) ==
    LET segs == split(replace(text, ";", ","), ",")
    IN {normalize(segs[i]) : i \in {j \in 1..Len(segs) : segs[j] # <<>>}}

parse_ingredients_all(text) ==
    LET segs == split(replace(text, ";", ","), ",")
    IN {normalize(segs[i]) : i \in 1..Len(segs)}

parse_ingredients(text) ==
    LET segs == split(replace(text, ";", ","), ",")
    IN {normalize(segs[i]) : i \in {j \in 1..Len(segs) : strip(segs[j]) # <<>>}}

\* profile.get('allergies', [])
get_allergies(p) == IF "allergies" \in DOMAIN p THEN p.allergies ELSE <<>>

user_allergies_raw(p) == Range(get_allergies(p))

user_allergies(p) == {normalize(a) : a \in Range(get_allergies(p))}

direct_matches(ua, fi) == ua \cap fi

partial_matches_with_equal(ua, fi) == {f \in fi : \E a \in ua : contains(f, a)}

partial_matches(ua, fi) == {f \in fi : \E a \in ua : contains(f, a) /\ a # f}

severity_partial_first(direct, partial) ==
    IF partial # {} THEN "Medium" ELSE IF direct # {} THEN "High" ELSE "Low"

severity_of(direct, partial) ==
    IF direct # {} THEN "High" ELSE IF partial # {} THEN "Medium" ELSE "Low"

\* lines 79-93 of check_allergy, from the locals user_allergies and food_ings
match_report(ua, fi) ==
    LET direct == direct_matches(ua, fi)
        partial == partial_matches(ua, fi)
    IN [ingredients |-> sorted(fi),
        direct |-> sorted(direct),
        partial |-> sorted(partial),
        severity |-> severity_of(direct, partial)]

check_allergy(p, text) ==
    match_report(user_allergies(p), parse_ingredients(text))

\* find_user_by_name: the first user whose normalized name occurs in the
\* recognized text, as a list of one record, or the empty list for None
find_user_by_name(name_text, users) ==
    LET hits == {i \in 1..Len(users) :
                    contains(name_text, normalize(users[i].name))}
    IN IF hits = {} THEN <<>>
       ELSE <<users[CHOOSE i \in hits : \A j \in hits : i <= j]>>

----------------------------------------------------------------------------
(* Input enumeration *)

TextChars == {" ", ",", ";", "A", "a", "b"}

ParseChars == TextChars \cup {DoubleStruckC}

RECURSIVE StringsUpTo(_, _)
StringsUpTo(chars, n) ==
    IF n = 0 THEN {<<>>}
    ELSE LET shorter == StringsUpTo(chars, n - 1)
         IN shorter \cup {Append(s, c) : s \in shorter, c \in chars}

\* Allergy terms as a profile may hold them: normalized, unnormalized
\* (case, surrounding whitespace), empty and whitespace-only.
AllergyTerms ==
    {<<>>, <<" ">>, <<"a">>, <<"b">>, <<" ", "A">>, <<"a", "b">>, <<"B", " ">>}

RECURSIVE ListsUpTo(_, _)
ListsUpTo(S, n) ==
    IF n = 0 THEN {<<>>}
    ELSE LET shorter == ListsUpTo(S, n - 1)
         IN shorter \cup {Append(l, x) : l \in shorter, x \in S}

Profiles ==
    {[name |-> "default"]}
        \cup {[name |-> "default", allergies |-> l] :
                l \in ListsUpTo(AllergyTerms, MaxAllergies)}

NoReport == [ingredients |-> <<>>, direct |-> <<>>, partial |-> <<>>,
             severity |-> "none"]

----------------------------------------------------------------------------
(* The files and the sessions of the voice-login app, as they stand after   *)
(* the first script run has created the files                               *)

Sessions == {"s1", "s2"}

\* default_profiles of load_users
DefaultUsers ==
    <<[name |-> <<"S", "h", "r", "i", "m", "a">>,
       allergies |-> <<<<"p", "e", "a", "n", "u", "t">>, <<"m", "i", "l", "k">>>>],
      [name |-> <<"T", "e", "a", "m", "m", "a", "t", "e", "1">>,
       allergies |-> <<<<"e", "g", "g">>, <<"w", "h", "e", "a", "t">>>>],
      [name |-> <<"T", "e", "a", "m", "m", "a", "t", "e", "2">>,
       allergies |-> <<<<"s", "o", "y">>>>]>>

\* the rows ensure_db writes
SAMPLE_DB ==
    <<[food |-> "Peanut Butter Sandwich",
       ingredients |-> "peanut, wheat flour, salt, sugar, vegetable oil"],
      [food |-> "Caesar Salad",
       ingredients |-> "lettuce, parmesan, anchovy, egg, olive oil, lemon"],
      [food |-> "Strawberry Yogurt",
       ingredients |-> "milk, strawberry, sugar, pectin"],
      [food |-> "Paneer Butter Masala",
       ingredients |-> "milk, paneer, tomato, butter, cashew"],
      [food |-> "Sushi (California Roll)",
       ingredients |-> "rice, avocado, crab (surimi), seaweed, sesame"]>>

\* a session_state without the key 'profile'
NotLoggedIn == [k \in {} |-> <<>>]

NoFrame == [k \in {} |-> <<>>]

AppInit ==
    /\ user_json = DefaultUsers
    /\ db_csv = SAMPLE_DB
    /\ session_state = [s \in Sessions |-> NotLoggedIn]
    /\ pc = [s \in Sessions |-> "idle"]
    /\ all_users = [s \in Sessions |-> <<>>]
    /\ frame = [s \in Sessions |-> NoFrame]
    /\ res = [s \in Sessions |-> NoReport]
    /\ edits = [s \in Sessions |-> 0]

----------------------------------------------------------------------------
(* SpecCheck: check_allergy applied to every enumerated profile and text *)

InitCheck ==
    /\ ingredients_text \in StringsUpTo(TextChars, MaxTextLen)
    /\ profile \in Profiles
    /\ report = NoReport
    /\ food_ings = {}
    /\ rejoined = <<>>
    /\ reparsed = {}
    /\ phase = "called"
    /\ AppInit

CheckAllergy ==
    /\ phase = "called"
    /\ report' = check_allergy(profile, ingredients_text)
    /\ phase' = "returned"
    /\ UNCHANGED <<ingredients_text, profile, food_ings, rejoined, reparsed>>
    /\ UNCHANGED app_vars

NextCheck == CheckAllergy

SpecCheck == InitCheck /\ [][NextCheck]_vars

----------------------------------------------------------------------------
(* SpecParse: parse_ingredients applied to every enumerated text, and again *)
(* to the comma-joined result                                              *)

InitParse ==
    /\ ingredients_text \in StringsUpTo(ParseChars, MaxParseLen)
    /\ profile = [name |-> "default"]
    /\ report = NoReport
    /\ food_ings = {}
    /\ rejoined = <<>>
    /\ reparsed = {}
    /\ phase = "called"
    /\ AppInit

ParseIngredients ==
    /\ phase = "called"
    /\ food_ings' = parse_ingredients(ingredients_text)
    /\ phase' = "parsed"
    /\ UNCHANGED <<ingredients_text, profile, report, rejoined, reparsed>>
    /\ UNCHANGED app_vars

ReparseJoined ==
    /\ phase = "parsed"
    /\ rejoined' = join(",", sorted(food_ings))
    /\ reparsed' = parse_ingredients(rejoined')
    /\ phase' = "reparsed"
    /\ UNCHANGED <<ingredients_text, profile, report, food_ings>>
    /\ UNCHANGED app_vars

NextParse == ParseIngredients \/ ReparseJoined

SpecParse == InitParse /\ [][NextParse]_vars

----------------------------------------------------------------------------
(* Spec: the voice-login app run by two browser sessions.  Every widget     *)
(* interaction reruns the script in the session's own thread; the reads and *)
(* writes of user_profile.json of different sessions interleave.            *)

\* what recognize_google may return (recognize_user lowercases it); the
\* empty list stands for a failed recognition
Spoken ==
    {<<>>,
     <<<<"S", "h", "r", "i", "m", "a">>>>,
     <<<<"t", "e", "a", "m", "m", "a", "t", "e", "1">>>>,
     <<<<"h", "e", "l", "l", "o">>>>}

\* what the user may type into "Add a new allergy:"
TypedAllergies == {<<>>, <<" ">>, <<" ", "A">>}

\* what extract_text_from_image may return
ScanTexts ==
    {<<"M", "i", "l", "k", ";", "e", "g", "g", "s">>,
     <<"a", ",", " ", "s", "o", "y">>}

FoodNames == {"", "Toast"}

FoodIngredients == {"", "wheat, butter"}

LoggedIn(s) == "profile" \in DOMAIN session_state[s]

Init ==
    /\ ingredients_text = <<>>
    /\ profile = [name |-> "default"]
    /\ report = NoReport
    /\ food_ings = {}
    /\ rejoined = <<>>
    /\ reparsed = {}
    /\ phase = "unused"
    /\ AppInit

\* "Login via Voice" (lines 122-138)
LoginViaVoice(s, spoken) ==
    /\ pc[s] = "idle"
    /\ ~LoggedIn(s)
    /\ LET name_detected == IF spoken = <<>> THEN <<>> ELSE lower(spoken[1])
           found == find_user_by_name(name_detected, user_json)
       IN IF name_detected # <<>> /\ found # <<>>
          THEN session_state' =
                   [session_state EXCEPT ![s] = [profile |-> found[1]]]
          ELSE UNCHANGED session_state
    /\ UNCHANGED <<user_json, db_csv, pc, all_users, frame, res, edits>>
    /\ UNCHANGED pure_vars

\* all_users with the record named like the profile given the profile's
\* allergies (lines 202-204, 213-215)
with_allergies_of(users, p) ==
    [i \in 1..Len(users) |->
        IF users[i].name = p.name
        THEN [users[i] EXCEPT !.allergies = p.allergies]
        ELSE users[i]]

\* "Add Allergy", up to and including load_users (lines 196-201)
AddAllergyLoad(s, new_allergy) ==
    /\ pc[s] = "idle"
    /\ LoggedIn(s)
    /\ edits[s] < MaxEdits
    /\ new_allergy # <<>>
    /\ LET allergies ==
               Append(get_allergies(session_state[s].profile),
                      normalize(new_allergy))
       IN session_state' =
              [session_state EXCEPT
                  ![s].profile.allergies = sorted(Range(allergies))]
    /\ all_users' = [all_users EXCEPT ![s] = user_json]
    /\ pc' = [pc EXCEPT ![s] = "add_dump"]
    /\ edits' = [edits EXCEPT ![s] = @ + 1]
    /\ UNCHANGED <<user_json, db_csv, frame, res>>
    /\ UNCHANGED pure_vars

\* "Add Allergy", the update of all_users and the json.dump (lines 202-207)
AddAllergyDump(s) ==
    /\ pc[s] = "add_dump"
    /\ user_json' = with_allergies_of(all_users[s], session_state[s].profile)
    /\ all_users' = [all_users EXCEPT ![s] = <<>>]
    /\ pc' = [pc EXCEPT ![s] = "idle"]
    /\ UNCHANGED <<db_csv, session_state, frame, res, edits>>
    /\ UNCHANGED pure_vars

\* the options of "Remove an allergy" other than 'None' (line 209)
RemoveOptions(s) ==
    IF LoggedIn(s) THEN Range(get_allergies(session_state[s].profile)) ELSE {}

\* "Remove Allergy", up to and including load_users (lines 209-212)
RemoveAllergyLoad(s, remove) ==
    /\ pc[s] = "idle"
    /\ LoggedIn(s)
    /\ edits[s] < MaxEdits
    /\ remove \in RemoveOptions(s)
    /\ LET allergies == get_allergies(session_state[s].profile)
       IN session_state' =
              [session_state EXCEPT
                  ![s].profile.allergies =
                      SelectSeq(allergies, LAMBDA a : a # remove)]
    /\ all_users' = [all_users EXCEPT ![s] = user_json]
    /\ pc' = [pc EXCEPT ![s] = "remove_dump"]
    /\ edits' = [edits EXCEPT ![s] = @ + 1]
    /\ UNCHANGED <<user_json, db_csv, frame, res>>
    /\ UNCHANGED pure_vars

\* "Remove Allergy", the update of all_users and the json.dump (lines 213-217)
RemoveAllergyDump(s) ==
    /\ pc[s] = "remove_dump"
    /\ user_json' = with_allergies_of(all_users[s], session_state[s].profile)
    /\ all_users' = [all_users EXCEPT ![s] = <<>>]
    /\ pc' = [pc EXCEPT ![s] = "idle"]
    /\ UNCHANGED <<db_csv, session_state, frame, res, edits>>
    /\ UNCHANGED pure_vars

CheckAllergyCallFromFile(s, text) ==
    /\ pc[s] = "idle"
    /\ LoggedIn(s)
    /\ frame' =
           [frame EXCEPT ![s] =
               [profile |-> session_state[s].profile,
                ingredients_text |-> text,
                user_allergies |->
                    UNION {user_allergies(user_json[i]) :
                             i \in {j \in 1..Len(user_json) :
                                      user_json[j].name =
                                          session_state[s].profile.name}},
                food_ings |-> parse_ingredients(text)]]
    /\ pc' = [pc EXCEPT ![s] = "check"]
    /\ UNCHANGED <<user_json, db_csv, session_state, all_users, res, edits>>
    /\ UNCHANGED pure_vars

\* "Check for Allergies": the call of check_allergy and its first two
\* statements (line 168, lines 78-80)
CheckAllergyCall(s, text) ==
    /\ pc[s] = "idle"
    /\ LoggedIn(s)
    /\ frame' =
           [frame EXCEPT ![s] =
               [profile |-> session_state[s].profile,
                ingredients_text |-> text,
                user_allergies |-> user_allergies(session_state[s].profile),
                food_ings |-> parse_ingredients(text)]]
    /\ pc' = [pc EXCEPT ![s] = "check"]
    /\ UNCHANGED <<user_json, db_csv, session_state, all_users, res, edits>>
    /\ UNCHANGED pure_vars

\* the rest of check_allergy and its return into res (lines 81-93, 168)
CheckAllergyReturn(s) ==
    /\ pc[s] = "check"
    /\ res' = [res EXCEPT
                  ![s] = match_report(frame[s].user_allergies, frame[s].food_ings)]
    /\ frame' = [frame EXCEPT ![s] = NoFrame]
    /\ pc' = [pc EXCEPT ![s] = "shown"]
    /\ UNCHANGED <<user_json, db_csv, session_state, all_users, edits>>
    /\ UNCHANGED pure_vars

\* the report is written to the page and the script run ends (lines 169-173)
ShowReport(s) ==
    /\ pc[s] = "shown"
    /\ res' = [res EXCEPT ![s] = NoReport]
    /\ pc' = [pc EXCEPT ![s] = "idle"]
    /\ UNCHANGED <<user_json, db_csv, session_state, all_users, frame, edits>>
    /\ UNCHANGED pure_vars

\* "Add Food" (lines 179-184, save_food)
AddFood(s, name, ingredients) ==
    /\ pc[s] = "idle"
    /\ Len(db_csv) < Len(SAMPLE_DB) + MaxFoods
    /\ IF name # "" /\ ingredients # ""
       THEN db_csv' = Append(db_csv, [food |-> name, ingredients |-> ingredients])
       ELSE UNCHANGED db_csv
    /\ UNCHANGED <<user_json, session_state, pc, all_users, frame, res, edits>>
    /\ UNCHANGED pure_vars

Next ==
    \E s \in Sessions :
        \/ \E spoken \in Spoken : LoginViaVoice(s, spoken)
        \/ \E new_allergy \in TypedAllergies : AddAllergyLoad(s, new_allergy)
        \/ AddAllergyDump(s)
        \/ \E remove \in RemoveOptions(s) : RemoveAllergyLoad(s, remove)
        \/ RemoveAllergyDump(s)
        \/ \E text \in ScanTexts : CheckAllergyCall(s, text)
        \/ CheckAllergyReturn(s)
        \/ ShowReport(s)
        \/ \E name \in FoodNames, ingredients \in FoodIngredients :
               AddFood(s, name, ingredients)

Spec == Init /\ [][Next]_vars

----------------------------------------------------------------------------
(* Properties of the app (Spec) *)

\* C8: a call of check_allergy leaves the profile passed to it, the profile
\* store and the food database unchanged, and the report it returns is the
\* report of its two arguments alone, whatever the other sessions did
\* between its call and its return.
C8_CheckAllergyIsPure ==
    [][\A s \in Sessions :
          /\ (pc[s] = "idle" /\ pc'[s] = "check") =>
                 /\ user_json' = user_json
                 /\ db_csv' = db_csv
                 /\ session_state' = session_state
          /\ (pc[s] = "check" /\ pc'[s] = "shown") =>
                 /\ user_json' = user_json
                 /\ db_csv' = db_csv
                 /\ session_state' = session_state
                 /\ session_state[s].profile = frame[s].profile
                 /\ res'[s] = check_allergy(frame[s].profile,
                                            frame[s].ingredients_text)]_vars

\* A session holds a report with matches while the other session stands
\* between its load_users and its json.dump.
C8_Witness ==
    \E s, t \in Sessions :
        /\ s # t
        /\ pc[s] = "shown"
        /\ res[s].severity \in {"High", "Medium"}
        /\ pc[t] \in {"add_dump", "remove_dump"}

\* C9: every persisted allergy list has no duplicate entries, and every entry
\* is a non-empty, trimmed, lowercase token.
C9_PersistedAllergySetsValid ==
    \A i \in 1..Len(user_json) :
        LET l == user_json[i].allergies
        IN /\ \A j, k \in 1..Len(l) : j # k => l[j] # l[k]
           /\ \A j \in 1..Len(l) :
                  /\ l[j] # <<>>
                  /\ strip(l[j]) = l[j]
                  /\ lower(l[j]) = l[j]

\* The sessions that are logged in are logged in as different users.
DifferentUsers ==
    \A s, t \in Sessions :
        (s # t /\ LoggedIn(s) /\ LoggedIn(t)) =>
            session_state[s].profile.name # session_state[t].profile.name

\* C10: with the sessions logged in as different users, the file write of an
\* Add Allergy or Remove Allergy changes no record but the one of the
\* session's own user.
C10_UpdateTouchesOnlyOwnRecord ==
    [][DifferentUsers =>
          \A s \in Sessions :
              (pc[s] \in {"add_dump", "remove_dump"} /\ pc'[s] = "idle") =>
                  \A i \in 1..Len(user_json) :
                      user_json[i].name # session_state[s].profile.name =>
                          /\ i \in 1..Len(user_json')
                          /\ user_json'[i] = user_json[i]]_vars

----------------------------------------------------------------------------
(* Properties of check_allergy (SpecCheck) *)

Returned == phase = "returned"

\* C1: the severity of a report is 'High' exactly when direct is non-empty,
\* 'Medium' exactly when direct is empty and partial is not, and 'Low'
\* exactly when both are empty.
C1_SeverityPriority ==
    Returned =>
        /\ report.severity = "High" <=> report.direct # <<>>
        /\ report.severity = "Medium" <=>
               (report.direct = <<>> /\ report.partial # <<>>)
        /\ report.severity = "Low" <=>
               (report.direct = <<>> /\ report.partial = <<>>)

\* A report with direct and partial matches at once, rated 'High'.
C1_Witness ==
    /\ Returned
    /\ report.direct # <<>>
    /\ report.partial # <<>>
    /\ report.severity = "High"

\* The trimmed, lowercased allergy terms of the profile, computed from the
\* str methods directly.
TrimmedLowerTerms ==
    {lower(strip(a)) : a \in Range(get_allergies(profile))}

\* C2: an ingredient token f is in partial if and only if some normalized
\* allergy term a is a non-empty substring of f and a # f.
C2_PartialIffNonEmptySubstring ==
    Returned =>
        \A f \in Range(report.ingredients) :
            f \in Range(report.partial) <=>
                \E a \in TrimmedLowerTerms :
                    a # <<>> /\ contains(f, a) /\ a # f

\* C3 (as claimed): no token is in both direct and partial.  Stated for the
\* profiles without blank terms, so that a violation owes nothing to the
\* empty term of C2.
C3_DirectPartialDisjoint ==
    (Returned /\ <<>> \notin TrimmedLowerTerms) =>
        Range(report.direct) \cap Range(report.partial) = {}

\* C3 (amended): a token of direct is in partial exactly when it contains a
\* normalized allergy term other than itself; the term it equals never puts
\* it in partial.
C3_DirectInPartialOnlyByOtherTerm ==
    Returned =>
        \A f \in Range(report.direct) :
            f \in Range(report.partial) <=>
                \E a \in TrimmedLowerTerms : a # f /\ contains(f, a)

\* A token that equals one allergy term and contains another, non-empty one
\* is in both lists.
C3_Witness ==
    /\ Returned
    /\ \E f \in Range(report.direct) \cap Range(report.partial) :
           \E a \in TrimmedLowerTerms : a # <<>> /\ a # f /\ contains(f, a)

\* C4: direct is exactly the set of normalized ingredient tokens equal to the
\* trimmed, lowercased form of some allergy term of the profile.
C4_DirectIsNormalizedEquality ==
    Returned =>
        Range(report.direct) =
            {f \in Range(report.ingredients) :
                \E i \in 1..Len(get_allergies(profile)) :
                    f = lower(strip(get_allergies(profile)[i]))}

\* A direct match produced only by a term stored with other case and
\* surrounding whitespace.
C4_Witness ==
    /\ Returned
    /\ \E f \in Range(report.direct) :
           /\ f \notin Range(get_allergies(profile))
           /\ \E a \in Range(get_allergies(profile)) :
                  /\ lower(strip(a)) = f
                  /\ strip(a) # a
                  /\ lower(a) # a

\* The text holds nothing but delimiters and whitespace.
OnlyDelimiters(text) ==
    \A i \in 1..Len(text) : text[i] \in {",", ";"} \/ isspace(text[i])

\* C7: with no 'allergies' entry, an empty allergy list, or a text of only
\* delimiters and whitespace, the report has empty direct and partial lists
\* and severity 'Low'; its ingredients list is empty when the text has no
\* tokens.
C7_DegenerateInputsGiveLow ==
    Returned =>
        /\ ("allergies" \notin DOMAIN profile
              \/ get_allergies(profile) = <<>>
              \/ OnlyDelimiters(ingredients_text)) =>
               /\ report.direct = <<>>
               /\ report.partial = <<>>
               /\ report.severity = "Low"
        /\ OnlyDelimiters(ingredients_text) => report.ingredients = <<>>

\* A non-empty text of delimiters and whitespace checked against a profile
\* that holds allergy terms.
C7_Witness ==
    /\ Returned
    /\ ingredients_text # <<>>
    /\ OnlyDelimiters(ingredients_text)
    /\ \E i \in 1..Len(ingredients_text) : isspace(ingredients_text[i])
    /\ get_allergies(profile) # <<>>
    /\ report.severity = "Low"

----------------------------------------------------------------------------
(* Properties of parse_ingredients (SpecParse) *)

\* str.isupper of one character
isupper(c) == c = DoubleStruckC \/ c \in Range(Uppercase)

\* C5 (as claimed): every token returned by parse_ingredients is non-empty,
\* has no leading or trailing whitespace, no uppercase character, no comma
\* and no semicolon.
C5_TokensHaveNoUppercase ==
    phase # "called" =>
        \A t \in food_ings :
            /\ t # <<>>
            /\ ~isspace(t[1])
            /\ ~isspace(t[Len(t)])
            /\ \A i \in 1..Len(t) : ~isupper(t[i]) /\ t[i] \notin {",", ";"}

\* C5 (amended): every token returned by parse_ingredients is non-empty, has
\* no leading or trailing whitespace, no uppercase character that has a
\* lowercase form, no comma and no semicolon.
C5_TokensAreNormalized ==
    phase # "called" =>
        \A t \in food_ings :
            /\ t # <<>>
            /\ ~isspace(t[1])
            /\ ~isspace(t[Len(t)])
            /\ \A i \in 1..Len(t) : t[i] \notin Range(Uppercase) \cup {",", ";"}

\* A text with an uppercase letter, a blank and a separator that yields
\* tokens.
C5_Witness ==
    /\ phase = "parsed"
    /\ food_ings # {}
    /\ \E i, j, k \in 1..Len(ingredients_text) :
           /\ ingredients_text[i] = "A"
           /\ isspace(ingredients_text[j])
           /\ ingredients_text[k] \in {",", ";"}

\* C6: parse_ingredients applied to the comma-joined tokens of
\* parse_ingredients(t) returns the same set.
C6_ParseIdempotent ==
    phase = "reparsed" => reparsed = food_ings

\* Two tokens rejoined into a text other than the original one.
C6_Witness ==
    /\ phase = "reparsed"
    /\ Cardinality(food_ings) >= 2
    /\ rejoined # ingredients_text
    /\ reparsed = food_ings

====
